---- MODULE Spec2Model ----
(***************************************************************************)
(* Model of slu/dev/repl.py: the input fallback chain (parse_as with       *)
(* json.loads, parse_as with ast.literal_eval, make_alts_from_text) and    *)
(* the interactive loop repl() that drives it.                             *)
(*                                                                         *)
(* A Python str is a sequence of one-character strings.  A Python value    *)
(* is a record tagged by t: "None", "bool", "int", "str", "list", "dict",  *)
(* "set", "tuple".  Spec is the interactive loop; SpecParse is the         *)
(* fallback chain alone, run on every input of ParseInputs.                *)
(***************************************************************************)
EXTENDS Integers, Sequences, FiniteSets, TLC

VARIABLES pc, show_help, raw, utterance, context, response, exc, excAt,
          tried, prompts, sent, returned, presented, exitLogs, iter

vars == <<pc, show_help, raw, utterance, context, response, exc, excAt,
          tried, prompts, sent, returned, presented, exitLogs, iter>>

\* ------------------------------------------------------------------ bounds
\* longest plain-text input enumerated
MaxLen == 4
\* longest input over the bracket alphabet enumerated
MaxStructLen == 4
\* prompts answered in one session
MaxIter == 3

\* ------------------------------------------------------- characters, str
UpperSeq == <<"A","B","C","D","E","F","G","H","I","J","K","L","M",
              "N","O","P","Q","R","S","T","U","V","W","X","Y","Z">>
LowerSeq == <<"a","b","c","d","e","f","g","h","i","j","k","l","m",
              "n","o","p","q","r","s","t","u","v","w","x","y","z">>
Upper == {UpperSeq[i] : i \in 1..26}
Lower == {LowerSeq[i] : i \in 1..26}
Digit == {"0","1","2","3","4","5","6","7","8","9"}
\* the character class [a-zA-Z0-9 ] of the first re.sub
AlnumSpace == Upper \cup Lower \cup Digit \cup {" "}
\* the characters \s matches and str.strip() removes
Whitespace == {" ", "\t", "\n", "\r", "\f"}

\* str.lower() on one character
LowerChar(c) ==
    IF c \in Upper THEN LowerSeq[CHOOSE i \in 1..26 : UpperSeq[i] = c] ELSE c

\* str.lower()
StrLower(s) == [i \in 1..Len(s) |-> LowerChar(s[i])]

RECURSIVE LStrip(_)
LStrip(s) ==
    IF s # <<>> /\ Head(s) \in Whitespace THEN LStrip(Tail(s)) ELSE s

RECURSIVE RStrip(_)
RStrip(s) ==
    IF s # <<>> /\ s[Len(s)] \in Whitespace
    THEN RStrip(SubSeq(s, 1, Len(s) - 1)) ELSE s

\* str.strip() with no argument
Strip(s) == RStrip(LStrip(s))

\* re.sub(r"[^a-zA-Z0-9 ]+", " ", s): every maximal run of characters
\* outside the class becomes one space
RECURSIVE SubNonAlnumFrom(_, _)
SubNonAlnumFrom(s, i) ==
    IF i > Len(s) THEN <<>>
    ELSE (IF s[i] \in AlnumSpace THEN <<s[i]>>
          ELSE IF i > 1 /\ s[i-1] \notin AlnumSpace THEN <<>> ELSE <<" ">>)
         \o SubNonAlnumFrom(s, i + 1)

SubNonAlnum(s) == SubNonAlnumFrom(s, 1)

\* re.sub(r"\s+", " ", s): every maximal run of whitespace becomes one space
RECURSIVE SubWhitespaceFrom(_, _)
SubWhitespaceFrom(s, i) ==
    IF i > Len(s) THEN <<>>
    ELSE (IF s[i] \notin Whitespace THEN <<s[i]>>
          ELSE IF i > 1 /\ s[i-1] \in Whitespace THEN <<>> ELSE <<" ">>)
         \o SubWhitespaceFrom(s, i + 1)

SubWhitespace(s) == SubWhitespaceFrom(s, 1)

\* "|" in text
HasPipe(s) == \E i \in 1..Len(s) : s[i] = "|"

\* text.split("|"): the list of the pieces between the separators
RECURSIVE SplitFrom(_, _, _)
SplitFrom(s, i, cur) ==
    IF i > Len(s) THEN <<cur>>
    ELSE IF s[i] = "|" THEN <<cur>> \o SplitFrom(s, i + 1, <<>>)
    ELSE SplitFrom(s, i + 1, Append(cur, s[i]))

SplitPipe(s) == SplitFrom(s, 1, <<>>)

\* -------------------------------------------------------- Python values
PyNone == [t |-> "None"]
PyBool(b) == [t |-> "bool", b |-> b]
PyInt(digits) == [t |-> "int", s |-> digits]
PyStr(s) == [t |-> "str", s |-> s]
PyList(items) == [t |-> "list", items |-> items]
\* a dict keeps its (key, value) pairs in insertion order
PyDict(pairs) == [t |-> "dict", items |-> pairs]
EmptyDict == PyDict(<<>>)

\* the truth value `not v` tests
Falsy(v) ==
    CASE v.t = "None" -> TRUE
      [] v.t = "bool" -> ~v.b
      [] v.t = "int"  -> \A i \in 1..Len(v.s) : v.s[i] \notin Digit \ {"0"}
      [] v.t = "str"  -> v.s = <<>>
      [] OTHER        -> v.items = <<>>

\* a set literal, a tuple (only ast.literal_eval produces them)
PySet(items) == [t |-> "set", items |-> items]
PyTuple(items) == [t |-> "tuple", items |-> items]

\* d[key] = value on the pair list: an existing key keeps its place
RECURSIVE DictPut(_, _, _)
DictPut(pairs, k, v) ==
    IF pairs = <<>> THEN <<[k |-> k, v |-> v]>>
    ELSE IF Head(pairs).k = k THEN <<[k |-> k, v |-> v]>> \o Tail(pairs)
    ELSE <<Head(pairs)>> \o DictPut(Tail(pairs), k, v)

\* key in d
DictHas(d, k) == \E i \in 1..Len(d.items) : d.items[i].k = k

\* d[key], for a key that is in d
DictGet(d, k) == d.items[CHOOSE i \in 1..Len(d.items) : d.items[i].k = k].v

\* ------------------------------------------------ scanning, both decoders
Ok(v, j) == [ok |-> TRUE, v |-> v, j |-> j]
Fail == [ok |-> FALSE, v |-> PyNone, j |-> 0]

RECURSIVE SkipWs(_, _, _)
SkipWs(s, i, ws) ==
    IF i <= Len(s) /\ s[i] \in ws THEN SkipWs(s, i + 1, ws) ELSE i

RECURSIVE SkipDigits(_, _)
SkipDigits(s, i) ==
    IF i <= Len(s) /\ s[i] \in Digit THEN SkipDigits(s, i + 1) ELSE i

\* s[i:].startswith(word)
MatchAt(s, i, word) ==
    /\ i + Len(word) - 1 <= Len(s)
    /\ SubSeq(s, i, i + Len(word) - 1) = word

\* a quoted string opening at s[i] with quote q: its text runs to the next q.
\* Escapes are not modelled: a backslash makes the scan fail, as do the
\* characters in `banned`.
ScanString(s, i, q, banned) ==
    IF \A j \in (i+1)..Len(s) : s[j] # q THEN Fail
    ELSE LET j == CHOOSE j \in (i+1)..Len(s) :
                     s[j] = q /\ \A k \in (i+1)..(j-1) : s[k] # q
             body == SubSeq(s, i + 1, j - 1)
         IN  IF \E k \in 1..Len(body) : body[k] \in banned \cup {"\\"}
             THEN Fail ELSE Ok(PyStr(body), j + 1)

\* ----------------------------------------------------------- json.loads
\* json.decoder.WHITESPACE
JsonWs == {" ", "\t", "\n", "\r"}
\* strict mode rejects control characters inside a string
JsonControl == {"\t", "\n", "\r", "\f"}

\* NUMBER_RE, integer part: -?(0|[1-9][0-9]*)
JsonNumber(s, i) ==
    LET k == IF s[i] = "-" THEN i + 1 ELSE i
    IN  IF k > Len(s) \/ s[k] \notin Digit THEN Fail
        ELSE IF s[k] = "0" THEN Ok(PyInt(SubSeq(s, i, k)), k + 1)
        ELSE Ok(PyInt(SubSeq(s, i, SkipDigits(s, k) - 1)), SkipDigits(s, k))

RECURSIVE JsonValue(_, _)
RECURSIVE JsonItems(_, _, _)
RECURSIVE JsonMembers(_, _, _)

\* JSONArray and JSONObject just after the opening bracket, at position k
JsonOpen(s, k, close) ==
    IF k <= Len(s) /\ s[k] = close
    THEN Ok(IF close = "]" THEN PyList(<<>>) ELSE EmptyDict, k + 1)
    ELSE IF close = "]" THEN JsonItems(s, k, <<>>)
    ELSE JsonMembers(s, k, <<>>)

\* scan_once at s[i]
JsonValue(s, i) ==
    IF i > Len(s) THEN Fail
    ELSE CASE s[i] = "\"" -> ScanString(s, i, "\"", JsonControl)
           [] s[i] \in {"[", "{"} ->
                JsonOpen(s, SkipWs(s, i + 1, JsonWs),
                         IF s[i] = "[" THEN "]" ELSE "}")
           [] MatchAt(s, i, <<"n","u","l","l">>) -> Ok(PyNone, i + 4)
           [] MatchAt(s, i, <<"t","r","u","e">>) -> Ok(PyBool(TRUE), i + 4)
           [] MatchAt(s, i, <<"f","a","l","s","e">>) -> Ok(PyBool(FALSE), i + 5)
           [] s[i] \in Digit \cup {"-"} -> JsonNumber(s, i)
           [] OTHER -> Fail

\* JSONArray after value r, with k the position after the whitespace behind it
JsonItemsNext(s, acc, r, k) ==
    IF ~r.ok \/ k > Len(s) THEN Fail
    ELSE IF s[k] = "]" THEN Ok(PyList(Append(acc, r.v)), k + 1)
    ELSE IF s[k] = ","
         THEN JsonItems(s, SkipWs(s, k + 1, JsonWs), Append(acc, r.v))
    ELSE Fail

JsonItemsAfter(s, acc, r) == JsonItemsNext(s, acc, r, SkipWs(s, r.j, JsonWs))

\* JSONArray at a value position
JsonItems(s, i, acc) == JsonItemsAfter(s, acc, JsonValue(s, i))

\* JSONObject after the value r of property `key`
JsonMembersNext(s, d, r, k) ==
    IF ~r.ok \/ k > Len(s) THEN Fail
    ELSE IF s[k] = "}" THEN Ok(PyDict(d), k + 1)
    ELSE IF s[k] = "," THEN JsonMembers(s, SkipWs(s, k + 1, JsonWs), d)
    ELSE Fail

JsonMembersAfter(s, acc, key, r) ==
    JsonMembersNext(s, DictPut(acc, key.v, r.v), r, SkipWs(s, r.j, JsonWs))

\* JSONObject after the property name `key`, with c the position of the colon
JsonMembersColon(s, acc, key, c) ==
    IF ~key.ok \/ c > Len(s) \/ s[c] # ":" THEN Fail
    ELSE JsonMembersAfter(s, acc, key, JsonValue(s, SkipWs(s, c + 1, JsonWs)))

JsonMembersKey(s, acc, key) ==
    JsonMembersColon(s, acc, key, SkipWs(s, key.j, JsonWs))

\* JSONObject at a property name
JsonMembers(s, i, acc) ==
    IF i > Len(s) \/ s[i] # "\"" THEN Fail
    ELSE JsonMembersKey(s, acc, ScanString(s, i, "\"", JsonControl))

\* a decoder's outcome: the decoded value, or the exception it raised
Decoded(v) == [exc |-> "none", v |-> v]
DecodeError(kind) == [exc |-> kind, v |-> PyNone]

\* json.loads(text): one value between optional whitespace, else
\* JSONDecodeError
JsonWhole(text, r) ==
    IF r.ok /\ SkipWs(text, r.j, JsonWs) > Len(text)
    THEN Decoded(r.v) ELSE DecodeError("JSONDecodeError")

json_loads(text) == JsonWhole(text, JsonValue(text, SkipWs(text, 1, JsonWs)))

\* ----------------------------------------------------- ast.literal_eval
\* The literal grammar modelled: quoted strings (either quote, no prefixes,
\* escapes or implicit concatenation), integers with at most one sign, None,
\* True, False, lists, dicts, sets, and a top-level tuple written without
\* parentheses.  Anything else is a failure of the decoder.
PyWs == {" ", "\t"}
\* a string literal ends at the end of the line
PyLineEnd == {"\n", "\r"}

IdentChar == Upper \cup Lower \cup Digit \cup {"_"}

\* a keyword at s[i], not running on into an identifier
KeywordAt(s, i, word) ==
    /\ MatchAt(s, i, word)
    /\ i + Len(word) > Len(s) \/ s[i + Len(word)] \notin IdentChar

\* a decimal integer at s[i]: digits, with no leading zero unless all are zero
LitNumber(s, i, from) ==
    LET e == SkipDigits(s, i)
    IN  IF e = i THEN Fail
        ELSE IF s[i] = "0" /\ \E k \in i..(e-1) : s[k] # "0" THEN Fail
        ELSE Ok(PyInt(SubSeq(s, from, e - 1)), e)

RECURSIVE LitAtom(_, _)
RECURSIVE LitItems(_, _, _, _)
RECURSIVE LitMembers(_, _, _)

\* the list or the set with elements acc
Display(close, acc) == IF close = "]" THEN PyList(acc) ELSE PySet(acc)

\* a display opened by "{", at position k behind it: {} is the empty dict; a
\* colon behind the first literal makes it a dict, else it is a set
LitBrace(s, k, first, c) ==
    IF k <= Len(s) /\ s[k] = "}" THEN Ok(EmptyDict, k + 1)
    ELSE IF first.ok /\ c <= Len(s) /\ s[c] = ":" THEN LitMembers(s, k, <<>>)
    ELSE LitItems(s, k, "}", <<>>)

LitBraceFirst(s, k, first) == LitBrace(s, k, first, SkipWs(s, first.j, PyWs))

LitBraceAt(s, k) == LitBraceFirst(s, k, LitAtom(s, k))

\* one literal at s[i]
LitAtom(s, i) ==
    IF i > Len(s) THEN Fail
    ELSE CASE s[i] \in {"\"", "'"} -> ScanString(s, i, s[i], PyLineEnd)
           [] s[i] = "[" -> LitItems(s, SkipWs(s, i + 1, PyWs), "]", <<>>)
           [] s[i] = "{" -> LitBraceAt(s, SkipWs(s, i + 1, PyWs))
           [] s[i] \in Digit \cup {"+", "-"} ->
                LitNumber(s, IF s[i] \in Digit THEN i
                             ELSE SkipWs(s, i + 1, PyWs), i)
           [] KeywordAt(s, i, <<"N","o","n","e">>) -> Ok(PyNone, i + 4)
           [] KeywordAt(s, i, <<"T","r","u","e">>) -> Ok(PyBool(TRUE), i + 4)
           [] KeywordAt(s, i, <<"F","a","l","s","e">>) -> Ok(PyBool(FALSE), i + 5)
           [] OTHER -> Fail

\* a list or set display after element r, with k the position behind it
LitItemsNext(s, close, acc, r, k) ==
    IF ~r.ok \/ k > Len(s) THEN Fail
    ELSE IF s[k] = ","
         THEN LitItems(s, SkipWs(s, k + 1, PyWs), close, Append(acc, r.v))
    ELSE IF s[k] = close THEN Ok(Display(close, Append(acc, r.v)), k + 1)
    ELSE Fail

LitItemsAfter(s, close, acc, r) ==
    LitItemsNext(s, close, acc, r, SkipWs(s, r.j, PyWs))

\* the elements of a list (close = "]") or of a set (close = "}"), from
\* position i; a trailing comma is allowed, an empty set display is not
LitItems(s, i, close, acc) ==
    IF i <= Len(s) /\ s[i] = close /\ (close = "]" \/ acc # <<>>)
    THEN Ok(Display(close, acc), i + 1)
    ELSE LitItemsAfter(s, close, acc, LitAtom(s, i))

\* a dict display after the value r of one pair
LitMembersNext(s, d, r, k) ==
    IF ~r.ok \/ k > Len(s) THEN Fail
    ELSE IF s[k] = "," THEN LitMembers(s, SkipWs(s, k + 1, PyWs), d)
    ELSE IF s[k] = "}" THEN Ok(PyDict(d), k + 1)
    ELSE Fail

LitMembersAfter(s, acc, key, r) ==
    LitMembersNext(s, DictPut(acc, key.v, r.v), r, SkipWs(s, r.j, PyWs))

\* a dict display after the key of one pair, with c the position of the colon
LitMembersColon(s, acc, key, c) ==
    IF ~key.ok \/ c > Len(s) \/ s[c] # ":" THEN Fail
    ELSE LitMembersAfter(s, acc, key, LitAtom(s, SkipWs(s, c + 1, PyWs)))

LitMembersKey(s, acc, key) ==
    LitMembersColon(s, acc, key, SkipWs(s, key.j, PyWs))

\* the key: value pairs of a dict display, from position i
LitMembers(s, i, acc) ==
    IF i <= Len(s) /\ s[i] = "}" /\ acc # <<>> THEN Ok(PyDict(acc), i + 1)
    ELSE LitMembersKey(s, acc, LitAtom(s, i))

\* the rest of a top-level tuple, after a comma
RECURSIVE LitTuple(_, _, _)

LitTupleNext(s, acc, r, k) ==
    IF ~r.ok THEN Fail
    ELSE IF k > Len(s) THEN Ok(PyTuple(Append(acc, r.v)), k)
    ELSE IF s[k] = ","
         THEN LitTuple(s, SkipWs(s, k + 1, PyWs), Append(acc, r.v))
    ELSE Fail

LitTupleAfter(s, acc, r) == LitTupleNext(s, acc, r, SkipWs(s, r.j, PyWs))

LitTuple(s, i, acc) ==
    IF i > Len(s) THEN Ok(PyTuple(acc), i)
    ELSE LitTupleAfter(s, acc, LitAtom(s, i))

\* the whole expression: one literal, or literals separated by commas
LitTopNext(s, r, k) ==
    IF ~r.ok THEN Fail
    ELSE IF k > Len(s) THEN r
    ELSE IF s[k] = "," THEN LitTuple(s, SkipWs(s, k + 1, PyWs), <<r.v>>)
    ELSE Fail

LitTopAfter(s, r) == LitTopNext(s, r, SkipWs(s, r.j, PyWs))

LitTop(s) == LitTopAfter(s, LitAtom(s, SkipWs(s, 1, PyWs)))

\* hash(v) succeeds
Hashable(v) == v.t \notin {"list", "dict", "set"}

\* building the value hashes a list, dict or set as a dict key or set member
RECURSIVE Unhashed(_)
Unhashed(v) ==
    CASE v.t \in {"list", "tuple"} ->
            \E i \in 1..Len(v.items) : Unhashed(v.items[i])
      [] v.t = "set" ->
            \E i \in 1..Len(v.items) :
                ~Hashable(v.items[i]) \/ Unhashed(v.items[i])
      [] v.t = "dict" ->
            \E i \in 1..Len(v.items) :
                \/ ~Hashable(v.items[i].k)
                \/ Unhashed(v.items[i].k)
                \/ Unhashed(v.items[i].v)
      [] OTHER -> FALSE

\* ast.literal_eval(text).  A string that is no expression (SyntaxError) and
\* an expression that is no literal (ValueError) are one outcome here,
\* reported as SyntaxError; an unhashable key or set member is TypeError.
LitWhole(r) ==
    IF ~r.ok THEN DecodeError("SyntaxError")
    ELSE IF Unhashed(r.v) THEN DecodeError("TypeError")
    ELSE Decoded(r.v)

literal_eval(text) == LitWhole(LitTop(text))

\* ------------------------------------------------------------ normalize
\* slu.constants: the keys of a structured input
ALTERNATIVES == PyStr(<<"a","l","t","e","r","n","a","t","i","v","e","s">>)
CONTEXT == PyStr(<<"c","o","n","t","e","x","t">>)
\* dialogy's key of one alternative
TRANSCRIPT == PyStr(<<"t","r","a","n","s","c","r","i","p","t">>)

\* a list of alternatives, each a dict with a str transcript
IsUtterance(v) ==
    /\ v.t = "list"
    /\ \A i \in 1..Len(v.items) :
          /\ v.items[i].t = "dict"
          /\ DictHas(v.items[i], TRANSCRIPT)
          /\ DictGet(v.items[i], TRANSCRIPT).t = "str"

Transcripts(v) == [i \in 1..Len(v.items) |-> DictGet(v.items[i], TRANSCRIPT)]

RECURSIVE Flatten(_)
Flatten(lists) ==
    IF lists = <<>> THEN <<>>
    ELSE Transcripts(Head(lists)) \o Flatten(Tail(lists))

\* dialogy's normalize(maybe_utterance): a list of utterances or one
\* utterance gives its transcripts, a list of str is kept, a str is wrapped;
\* any other value is rejected with TypeError
normalize(v) ==
    CASE v.t = "list" /\ (\A i \in 1..Len(v.items) : IsUtterance(v.items[i])) ->
            Decoded(PyList(Flatten(v.items)))
      [] IsUtterance(v) -> Decoded(PyList(Transcripts(v)))
      [] v.t = "list" /\ (\A i \in 1..Len(v.items) : v.items[i].t = "str") ->
            Decoded(v)
      [] v.t = "str" -> Decoded(PyList(<<v>>))
      [] OTHER -> DecodeError("TypeError")

\* ----------------------------------------------------- the parsing tiers
\* what a call gives back: the returned pair, or the exception it raised
Return(u, c) == [exc |-> "none", utterance |-> u, context |-> c]
Raised(kind) == [exc |-> kind, utterance |-> PyNone, context |-> PyNone]

IsAlnumSpace(c) == c \in AlnumSpace

\* line 51 with "" as the replacement of the first re.sub
NormalizeTextDeleting(text_) ==
    Strip(StrLower(SubWhitespace(SelectSeq(text_, IsAlnumSpace))))

\* line 51 with the two re.sub calls nested the other way round
NormalizeTextSwapped(text_) ==
    Strip(StrLower(SubNonAlnum(SubWhitespace(text_))))

\* the line-51 expression
NormalizeText(text_) ==
    Strip(StrLower(SubWhitespace(SubNonAlnum(text_))))

\* lines 44-52, with parts the value of text.split("|")
MakeAlts(text, parts) ==
    IF HasPipe(text)
    THEN IF Len(parts) # 2
         THEN Raised("ValueError")
         ELSE Return(PyList(<<PyStr(NormalizeText(parts[1]))>>),
                     PyStr(Strip(parts[2])))
    ELSE Return(PyList(<<PyStr(NormalizeText(text))>>), PyNone)

make_alts_from_text(text) == MakeAlts(text, SplitPipe(text))

\* the exception classes the except clauses of parse_as name
Caught == {"JSONDecodeError", "ValueError", "SyntaxError"}

\* an exception raised inside the try block of parse_as
Except(kind) ==
    IF kind \in Caught THEN Return(PyNone, EmptyDict) ELSE Raised(kind)

\* func(text), func one of json.loads and ast.literal_eval
Decode(func, text) ==
    IF func = "json.loads" THEN json_loads(text) ELSE literal_eval(text)

\* line 69, with n the outcome of normalize(content[const.ALTERNATIVES])
FromMapping(d, n) ==
    IF n.exc # "none" THEN Except(n.exc)
    ELSE IF ~DictHas(d, CONTEXT) THEN Except("KeyError")
    ELSE Return(n.v, DictGet(d, CONTEXT))

\* line 71 returning an absent context
FromSequenceAbsentContext(n) ==
    IF n.exc # "none" THEN Except(n.exc) ELSE Return(n.v, PyNone)

\* line 71, with n the outcome of normalize(content)
FromSequence(n) ==
    IF n.exc # "none" THEN Except(n.exc) ELSE Return(n.v, EmptyDict)

\* what normalize is called on at lines 69 and 71
Normalized(v) ==
    IF v.t = "dict" THEN normalize(DictGet(v, ALTERNATIVES)) ELSE normalize(v)

\* lines 66-79, with content the outcome of func(text)
ParseContent(content) ==
    IF content.exc # "none" THEN Except(content.exc)
    ELSE IF content.v.t = "dict"
    THEN IF ~DictHas(content.v, ALTERNATIVES) THEN Except("KeyError")
         ELSE FromMapping(content.v, Normalized(content.v))
    ELSE IF content.v.t = "list" THEN FromSequence(Normalized(content.v))
    ELSE Return(PyNone, EmptyDict)

parse_as(text, func) == ParseContent(Decode(func, text))

\* ------------------------------------------------------------- inputs
\* the literal the loop compares raw with
HelpSentinel == <<"-","-","h","e","l","p">>

\* the spec's example of a labelled text: I need fruit juice | COF1
InFruitJuice ==
    <<"I"," ","n","e","e","d"," ","f","r","u","i","t"," ","j","u","i","c",
      "e"," ","|"," ","C","O","F","1">>

\* a JSON array of str: ["hi"]
InJsonList ==
    <<"[","\"","h","i","\"","]">>

\* a literal list of str, no JSON: ['hi']
InLiteralList ==
    <<"[","'","h","i","'","]">>

\* a literal list with a trailing comma, no JSON: ["hi",]
InTrailingComma ==
    <<"[","\"","h","i","\"",",","]">>

\* a JSON object with both keys: {"alternatives":["hi"],"context":{}}
InJsonDict ==
    <<"{","\"","a","l","t","e","r","n","a","t","i","v","e","s","\"",":","[",
      "\"","h","i","\"","]",",","\"","c","o","n","t","e","x","t","\"",":",
      "{","}","}">>

\* a literal dict with both keys: {'alternatives':['hi'],'context':'C1'}
InLiteralDict ==
    <<"{","'","a","l","t","e","r","n","a","t","i","v","e","s","'",":","[",
      "'","h","i","'","]",",","'","c","o","n","t","e","x","t","'",":","'",
      "C","1","'","}">>

\* an object without the context key: {"alternatives":["hi"]}
InNoContext ==
    <<"{","\"","a","l","t","e","r","n","a","t","i","v","e","s","\"",":","[",
      "\"","h","i","\"","]","}">>

\* an object without the alternatives key: {"context":{}}
InNoAlternatives ==
    <<"{","\"","c","o","n","t","e","x","t","\"",":","{","}","}">>

\* an object whose alternatives normalize to nothing: {"alternatives":[],"context":{"a":1}}
InEmptyAlternatives ==
    <<"{","\"","a","l","t","e","r","n","a","t","i","v","e","s","\"",":","[",
      "]",",","\"","c","o","n","t","e","x","t","\"",":","{","\"","a","\"",
      ":","1","}","}">>

\* an object whose alternatives the normalizer rejects: {"alternatives":[1],"context":{}}
InRejected ==
    <<"{","\"","a","l","t","e","r","n","a","t","i","v","e","s","\"",":","[",
      "1","]",",","\"","c","o","n","t","e","x","t","\"",":","{","}","}">>

\* the utterance shape of the help banner: [[{"transcript":"hi","confidence":1}]]
InUtterance ==
    <<"[","[","{","\"","t","r","a","n","s","c","r","i","p","t","\"",":",
      "\"","h","i","\"",",","\"","c","o","n","f","i","d","e","n","c","e",
      "\"",":","1","}","]","]">>

\* a JSON string, neither mapping nor sequence: "hi"
InJsonString ==
    <<"\"","h","i","\"">>

\* a dict display with an unhashable key: {[]:1}
InListKey ==
    <<"{","[","]",":","1","}">>

\* text with two separators: a|b|c
InTwoPipes ==
    <<"a","|","b","|","c">>

\* the spec's example of malformed input: not valid json {
InNotJson ==
    <<"n","o","t"," ","v","a","l","i","d"," ","j","s","o","n"," ","{">>

Catalog ==
    {HelpSentinel, InFruitJuice, InJsonList, InLiteralList,
     InTrailingComma, InJsonDict, InLiteralDict,
     InNoContext, InNoAlternatives, InEmptyAlternatives,
     InRejected, InUtterance, InJsonString,
     InListKey, InTwoPipes, InNotJson}

\* every str over alphabet A of length at most n
Strings(A, n) == UNION {[1..k -> A] : k \in 0..n}

\* a lower and an upper case letter, a digit, a space, another whitespace
\* character, a punctuation character and the separator
PlainAlphabet == {"a", "B", "1", " ", "\t", "-", "|"}
\* the characters of list, dict and set displays, and a digit
StructAlphabet == {"[", "]", "{", "}", ":", ",", "1"}

\* the raw inputs the fallback chain is checked on
ParseInputs ==
    Strings(PlainAlphabet, MaxLen) \cup Strings(StructAlphabet, MaxStructLen)
        \cup Catalog

\* the raw inputs an operator of the loop types
LoopInputs ==
    {HelpSentinel, <<>>, <<"H","i","!">>, <<"a"," ","|"," ","B">>, InTwoPipes,
     InJsonList, InLiteralList, <<"[","]">>, <<"{","}">>}

\* --------------------------------------------------------------- repl()
\* what PREDICT_API returns; the loop never looks inside
Responses == {"response_1", "response_2"}
\* what PREDICT_API may raise
PipelineErrors == {"KeyboardInterrupt", "EOFError", "RuntimeError"}
\* what the prompt raises on C-c and on C-d
PromptSignals == {"KeyboardInterrupt", "EOFError"}

\* lines 135 and 137 without their test
NextTierAlways(u, next) == next

\* `if not utterance:` before the next tier (lines 135 and 137)
NextTier(u, next) == IF Falsy(u) THEN next ELSE "invoke"

\* one except clause for every exception
ExitsOnAnyError(kind) == TRUE

\* the except clause of line 155 alone
ExitsOnInterruptOnly(kind) == kind = "KeyboardInterrupt"

\* the except clauses that close the try block around the loop
Exits(kind) == kind \in {"KeyboardInterrupt", "EOFError"}

\* the except clauses with `pass` for a body
LeaveWithoutLog(kind) ==
    /\ exc' = kind
    /\ excAt' = pc
    /\ pc' = IF Exits(kind) THEN "Exiting" ELSE "Crashed"
    /\ exitLogs' = exitLogs

\* an exception leaves the while loop: log.info("Exiting...") for the two
\* handled classes, else it propagates out of repl()
Leave(kind) ==
    /\ exc' = kind
    /\ excAt' = pc
    /\ pc' = IF Exits(kind) THEN "Exiting" ELSE "Crashed"
    /\ exitLogs' = IF Exits(kind) THEN exitLogs + 1 ELSE exitLogs

\* lines 134-138 with the first tier guarded by `if not utterance:` as well
TierUnlessParsed(name, r, next) ==
    /\ tried' = Append(tried, [tier |-> name, exc |-> r.exc,
                               utterance |-> r.utterance,
                               context |-> r.context])
    /\ IF r.exc # "none"
       THEN /\ Leave(r.exc)
            /\ UNCHANGED <<utterance, context>>
       ELSE /\ utterance' = IF Falsy(utterance) THEN r.utterance ELSE utterance
            /\ context' = IF Falsy(utterance) THEN r.context ELSE context
            /\ pc' = IF name = "text" THEN "invoke"
                     ELSE NextTier(utterance', next)
            /\ UNCHANGED <<exc, excAt, exitLogs>>

\* lines 134-138 with a mapping once returned for context kept by the
\* tiers that follow
TierKeepingContext(name, r, next) ==
    /\ tried' = Append(tried, [tier |-> name, exc |-> r.exc,
                               utterance |-> r.utterance,
                               context |-> r.context])
    /\ IF r.exc # "none"
       THEN /\ Leave(r.exc)
            /\ UNCHANGED <<utterance, context>>
       ELSE /\ utterance' = r.utterance
            /\ context' = IF context.t = "dict" THEN context ELSE r.context
            /\ pc' = IF name = "text" THEN "invoke"
                     ELSE NextTier(r.utterance, next)
            /\ UNCHANGED <<exc, excAt, exitLogs>>

\* one tier has run and given result r
Tier(name, r, next) ==
    /\ tried' = Append(tried, [tier |-> name, exc |-> r.exc,
                               utterance |-> r.utterance,
                               context |-> r.context])
    /\ IF r.exc # "none"
       THEN /\ Leave(r.exc)
            /\ UNCHANGED <<utterance, context>>
       ELSE /\ utterance' = r.utterance
            /\ context' = r.context
            /\ pc' = IF name = "text" THEN "invoke"
                     ELSE NextTier(r.utterance, next)
            /\ UNCHANGED <<exc, excAt, exitLogs>>

\* state after construction: lines 111-116
Init ==
    /\ pc = "prompt"
    /\ show_help = TRUE
    /\ raw = <<>>
    /\ utterance = PyNone
    /\ context = PyNone
    /\ response = "none"
    /\ exc = "none"
    /\ excAt = "none"
    /\ tried = <<>>
    /\ prompts = <<>>
    /\ sent = <<>>
    /\ returned = <<>>
    /\ presented = <<>>
    /\ exitLogs = 0
    /\ iter = 0

\* lines 120-126: the prompt returns the operator's input
Prompt(input) ==
    /\ pc = "prompt"
    /\ iter < MaxIter
    /\ prompts' = Append(prompts, show_help)
    /\ raw' = input
    /\ iter' = iter + 1
    /\ tried' = <<>>
    /\ pc' = IF input = HelpSentinel THEN "help_prompt" ELSE "parse_json"
    /\ UNCHANGED <<show_help, utterance, context, response, exc, excAt,
                   sent, returned, presented, exitLogs>>

\* lines 127-131: the prompt after the sentinel, with the help shown
HelpPrompt(input) ==
    /\ pc = "help_prompt"
    /\ prompts' = Append(prompts, TRUE)
    /\ raw' = input
    /\ pc' = "parse_json"
    /\ UNCHANGED <<show_help, utterance, context, response, exc, excAt,
                   tried, sent, returned, presented, exitLogs, iter>>

\* C-c or C-d while either prompt waits
PromptSignal(kind) ==
    /\ pc \in {"prompt", "help_prompt"}
    /\ prompts' = Append(prompts, pc = "help_prompt" \/ show_help)
    /\ Leave(kind)
    /\ UNCHANGED <<show_help, raw, utterance, context, response, tried,
                   sent, returned, presented, iter>>

\* lines 133-134
ParseJson ==
    /\ pc = "parse_json"
    /\ show_help' = FALSE
    /\ Tier("json", parse_as(raw, "json.loads"), "parse_literal")
    /\ UNCHANGED <<raw, response, prompts, sent, returned, presented, iter>>

\* lines 135-136
ParseLiteral ==
    /\ pc = "parse_literal"
    /\ Tier("literal", parse_as(raw, "ast.literal_eval"), "parse_text")
    /\ UNCHANGED <<show_help, raw, response, prompts, sent, returned,
                   presented, iter>>

\* lines 137-138
ParseText ==
    /\ pc = "parse_text"
    /\ Tier("text", make_alts_from_text(raw), "invoke")
    /\ UNCHANGED <<show_help, raw, response, prompts, sent, returned,
                   presented, iter>>

\* the call of line 145 with {} for its context
InvokeWithoutContext(r) ==
    /\ pc = "invoke"
    /\ sent' = Append(sent, [utterance |-> utterance, context |-> EmptyDict])
    /\ response' = r
    /\ returned' = Append(returned, r)
    /\ pc' = "present"
    /\ UNCHANGED <<show_help, raw, utterance, context, exc, excAt, tried,
                   prompts, presented, exitLogs, iter>>

\* lines 140-149: PREDICT_API returns a response
Invoke(r) ==
    /\ pc = "invoke"
    /\ sent' = Append(sent, [utterance |-> utterance, context |-> context])
    /\ response' = r
    /\ returned' = Append(returned, r)
    /\ pc' = "present"
    /\ UNCHANGED <<show_help, raw, utterance, context, exc, excAt, tried,
                   prompts, presented, exitLogs, iter>>

\* lines 140-149: PREDICT_API raises
InvokeRaises(kind) ==
    /\ pc = "invoke"
    /\ sent' = Append(sent, [utterance |-> utterance, context |-> context])
    /\ Leave(kind)
    /\ UNCHANGED <<show_help, raw, utterance, context, response, tried,
                   prompts, returned, presented, iter>>

\* lines 151-154
Present ==
    /\ pc = "present"
    /\ presented' = Append(presented, response)
    /\ pc' = "prompt"
    /\ UNCHANGED <<show_help, raw, utterance, context, response, exc, excAt,
                   tried, prompts, sent, returned, exitLogs, iter>>

\* SIGINT while the loop is not at a prompt: Python raises KeyboardInterrupt
\* in the main thread, inside the try block
Interrupt ==
    /\ pc \in {"parse_json", "parse_literal", "parse_text", "invoke", "present"}
    /\ Leave("KeyboardInterrupt")
    /\ UNCHANGED <<show_help, raw, utterance, context, response, tried,
                   prompts, sent, returned, presented, iter>>

Next ==
    \/ \E input \in LoopInputs : Prompt(input)
    \/ \E input \in LoopInputs : HelpPrompt(input)
    \/ \E kind \in PromptSignals : PromptSignal(kind)
    \/ ParseJson
    \/ ParseLiteral
    \/ ParseText
    \/ \E r \in Responses : Invoke(r)
    \/ \E kind \in PipelineErrors : InvokeRaises(kind)
    \/ Present
    \/ Interrupt

Spec == Init /\ [][Next]_vars

\* the fallback chain alone, on every input of ParseInputs: the state after
\* the first prompt returned raw
InitParse ==
    /\ raw \in ParseInputs
    /\ raw # HelpSentinel
    /\ pc = "parse_json"
    /\ show_help = TRUE
    /\ utterance = PyNone
    /\ context = PyNone
    /\ response = "none"
    /\ exc = "none"
    /\ excAt = "none"
    /\ tried = <<>>
    /\ prompts = <<TRUE>>
    /\ sent = <<>>
    /\ returned = <<>>
    /\ presented = <<>>
    /\ exitLogs = 0
    /\ iter = 1

NextParse == ParseJson \/ ParseLiteral \/ ParseText

SpecParse == InitParse /\ [][NextParse]_vars

\* ================================================================ claims
\* the tier that ran last in this iteration, and whether it returned
Last == tried[Len(tried)]
Ran(name) == tried # <<>> /\ Last.tier = name
Returned(name) == Ran(name) /\ Last.exc = "none"

\* the decoder of a structured tier
FuncOf(name) == IF name = "json" THEN "json.loads" ELSE "ast.literal_eval"

\* the text of a one-element utterance
TextOf(u) == u.items[1].s

\* the position of the first "|" of s, and what lies on either side of it
FirstPipe(s) == CHOOSE i \in 1..Len(s) : s[i] = "|" /\ \A j \in 1..(i-1) : s[j] # "|"
LeftOfPipe(s) == SubSeq(s, 1, FirstPipe(s) - 1)
RightOfPipe(s) == SubSeq(s, FirstPipe(s) + 1, Len(s))

\* s with its spaces squeezed: a space stays only between two words
KeptSpace(s, i) ==
    /\ \E j \in 1..(i-1) : s[j] # " "
    /\ i < Len(s)
    /\ s[i+1] # " "

RECURSIVE SqueezeFrom(_, _)
SqueezeFrom(s, i) ==
    IF i > Len(s) THEN <<>>
    ELSE (IF s[i] # " " \/ KeptSpace(s, i) THEN <<s[i]>> ELSE <<>>)
         \o SqueezeFrom(s, i + 1)

Squeeze(s) == SqueezeFrom(s, 1)

\* s lowercased, with each character outside [a-zA-Z0-9 ] turned into a space
Spaced(s) ==
    [i \in 1..Len(s) |-> IF s[i] \in AlnumSpace THEN LowerChar(s[i]) ELSE " "]

\* s lowercased, with each character outside [a-zA-Z0-9 ] taken out
Deleted(s) == StrLower(SelectSeq(s, IsAlnumSpace))

\* C1: parsing is total: whatever the raw string, every tier that runs
\* returns a pair and no exception leaves the fallback chain.
C1_ParsingTotal ==
    /\ pc # "Crashed"
    /\ \A i \in 1..Len(tried) : tried[i].exc = "none"

\* C2: a structured tier whose decoder fails, or decodes a mapping without
\* the "alternatives" or the "context" key, or decodes a value that is
\* neither a mapping nor a sequence, returns exactly (None, {}).
NoStructure(d) ==
    \/ d.exc # "none"
    \/ d.v.t = "dict" /\ ~(DictHas(d.v, ALTERNATIVES) /\ DictHas(d.v, CONTEXT))
    \/ d.v.t \notin {"dict", "list"}

C2_StructuredFallthrough ==
    \A i \in 1..Len(tried) :
        (/\ tried[i].tier \in {"json", "literal"}
         /\ NoStructure(Decode(FuncOf(tried[i].tier), raw)))
        => /\ tried[i].exc = "none"
           /\ tried[i].utterance = PyNone
           /\ tried[i].context = EmptyDict

\* C3: when raw contains "|", the plain-text tier splits it at the first
\* one: the utterance is the normalized text left of it, the context the
\* stripped text right of it, however many "|" follow.
C3_SplitOnFirstPipe ==
    (Ran("text") /\ HasPipe(raw))
    => /\ Last.exc = "none"
       /\ Last.utterance = PyList(<<PyStr(Squeeze(Spaced(LeftOfPipe(raw))))>>)
       /\ Last.context = PyStr(Strip(RightOfPipe(raw)))

\* C4 as claimed: for raw without "|" that reaches the plain-text tier, the
\* utterance is the one text obtained by deleting every character that is
\* not an ASCII letter, digit or space, squeezing the spaces and
\* lowercasing; the context is None.
C4_Original ==
    (Returned("text") /\ ~HasPipe(raw))
    => /\ Last.utterance = PyList(<<PyStr(Squeeze(Deleted(raw)))>>)
       /\ Last.context = PyNone

\* C4 as amended: for raw without "|" that reaches the plain-text tier, the
\* tier returns, the utterance is the one text obtained by turning every
\* character that is not an ASCII letter, digit or space into a space,
\* squeezing the spaces and lowercasing, and the context is None.
C4_TextNormalized ==
    (Ran("text") /\ ~HasPipe(raw))
    => /\ Last.exc = "none"
       /\ Last.utterance = PyList(<<PyStr(Squeeze(Spaced(raw)))>>)
       /\ Last.context = PyNone
       /\ pc = "invoke" /\ utterance = Last.utterance /\ context = PyNone

C4_Witness ==
    /\ Returned("text")
    /\ raw = <<"a", "-", "B">>
    /\ utterance = PyList(<<PyStr(<<"a", " ", "b">>)>>)
    /\ context = PyNone

\* what tier i of this iteration decoded raw to
DecodedBy(i) == Decode(FuncOf(tried[i].tier), raw)

\* the decoder gave a mapping with both keys, or a sequence, that the
\* normalizer accepts
Accepted(d) ==
    /\ d.exc = "none"
    /\ \/ d.v.t = "list"
       \/ d.v.t = "dict" /\ DictHas(d.v, ALTERNATIVES) /\ DictHas(d.v, CONTEXT)
    /\ Normalized(d.v).exc = "none"

\* raw is a JSON array
JsonArray == json_loads(raw).exc = "none" /\ json_loads(raw).v.t = "list"

\* what parse_as is claimed to return for an accepted value
ClaimedPair(d) ==
    [utterance |-> Normalized(d.v).v,
     context |-> IF d.v.t = "dict" THEN DictGet(d.v, CONTEXT) ELSE EmptyDict]

TierOrder == <<"json", "literal", "text">>

C6_TierOrder ==
    /\ Len(tried) <= 3
    /\ \A i \in 1..Len(tried) : tried[i].tier = TierOrder[i]
    /\ \A i \in 1..(Len(tried) - 1) :
          tried[i].exc = "none" /\ Falsy(tried[i].utterance)
    /\ (tried # <<>> /\ Last.exc = "none" /\ ~Falsy(Last.utterance))
          => /\ pc \in {"invoke", "present", "prompt", "Exiting", "Crashed"}
             /\ utterance = Last.utterance
             /\ context = Last.context
    /\ pc = "invoke"
          => tried # <<>> /\ Last.exc = "none" /\ ~Falsy(Last.utterance)
    /\ pc = "parse_literal" => Len(tried) = 1
    /\ pc = "parse_text" => Len(tried) = 2

C6_Witness ==
    /\ raw = InLiteralList
    /\ pc = "invoke"
    /\ Len(tried) = 2
    /\ Falsy(tried[1].utterance)
    /\ utterance = PyList(<<PyStr(<<"h", "i">>)>>)

\* C7: every utterance handed to the pipeline is a non-empty sequence;
\* whenever the plain-text tier is reached it supplies a one-element
\* sequence, so the empty string goes to the pipeline as [""].
C7_UtteranceNeverEmpty ==
    /\ \A i \in 1..Len(sent) :
          sent[i].utterance.t = "list" /\ sent[i].utterance.items # <<>>
    /\ Ran("text")
          => /\ Last.exc = "none"
             /\ Last.utterance.t = "list"
             /\ Len(Last.utterance.items) = 1
    /\ (Ran("text") /\ raw = <<>> /\ pc = "invoke")
          => utterance = PyList(<<PyStr(<<>>)>>)

\* C8: the plain-text normalization is idempotent: the text the plain-text
\* tier returns is left unchanged by normalizing it again.
C8_Idempotent ==
    Returned("text")
    => NormalizeText(TextOf(Last.utterance)) = TextOf(Last.utterance)

C8_Witness ==
    /\ Returned("text")
    /\ raw = <<"B", "-", " ", "a">>
    /\ TextOf(utterance) = <<"b", " ", "a">>

\* C9: the help sentinel is never parsed and never sent to the pipeline:
\* no tier runs on it, however often it is entered.
C9_SentinelNeverParsed ==
    /\ tried # <<>> => raw # HelpSentinel
    /\ pc \in {"parse_json", "parse_literal", "parse_text", "invoke", "present"}
          => raw # HelpSentinel

\* C10 as claimed: Exiting is reached only from a prompt.
C10_Original ==
    pc = "Exiting" => excAt \in {"prompt", "help_prompt"}

\* C10 as amended: Exiting is reached from any state of the loop, through a
\* KeyboardInterrupt or an EOFError and through nothing else, with one
\* "Exiting..." message; any other exception leaves repl() without it.
C10_ExitingOnSignal ==
    /\ pc = "Exiting"
          => /\ exc \in {"KeyboardInterrupt", "EOFError"}
             /\ exitLogs = 1
    /\ pc = "Crashed"
          => /\ exc \notin {"KeyboardInterrupt", "EOFError", "none"}
             /\ exitLogs = 0
    /\ pc \notin {"Exiting", "Crashed"} => exc = "none" /\ exitLogs = 0
    /\ exc \in {"KeyboardInterrupt", "EOFError"} => pc = "Exiting"

C10_Witness ==
    /\ pc = "Exiting"
    /\ excAt = "invoke"
    /\ exc = "EOFError"
    /\ exitLogs = 1

\* PREDICT_API raised in the current iteration: the request was sent (it is
\* the iter-th one) and an exception left the loop from line 145
PipelineRaised == excAt = "invoke" /\ Len(sent) = iter

\* C11 as claimed: whatever the pipeline raises propagates out of repl()
\* and no "Exiting..." message is logged.
C11_Original ==
    PipelineRaised => pc = "Crashed" /\ exitLogs = 0

\* C11 as amended: a KeyboardInterrupt or an EOFError raised by the pipeline
\* is caught and logs "Exiting..." once, any other error propagates without
\* the message; in both cases nothing is presented for the iteration and the
\* loop takes no further step (no prompt, no parse, no call).
C11_PipelineError ==
    /\ [](PipelineRaised
            => /\ exc \in {"KeyboardInterrupt", "EOFError"}
                     => pc = "Exiting" /\ exitLogs = 1
               /\ exc \notin {"KeyboardInterrupt", "EOFError"}
                     => pc = "Crashed" /\ exitLogs = 0
               /\ Len(presented) = iter - 1)
    /\ [][~PipelineRaised]_vars

C11_Witness ==
    /\ PipelineRaised
    /\ exc = "RuntimeError"
    /\ pc = "Crashed"
    /\ iter = 2
    /\ Len(presented) = 1
    /\ Len(prompts) >= 2

\* the steps of the session so far are in cycle order: each finished
\* iteration made one call and one presentation, the current one has got as
\* far as pc says, and a call is made only after a tier returned
Sequenced ==
    /\ Len(sent) - Len(presented) \in {0, 1}
    /\ pc = "prompt" => Len(sent) = iter /\ Len(presented) = iter
    /\ pc \in {"help_prompt", "parse_json", "parse_literal", "parse_text", "invoke"}
          => Len(sent) = iter - 1 /\ Len(presented) = iter - 1
    /\ pc = "present" => Len(sent) = iter /\ Len(presented) = iter - 1
    /\ pc \in {"Exiting", "Crashed"} => Len(presented) \in {iter - 1, iter}
    /\ sent # <<>> /\ Len(sent) = iter => tried # <<>> /\ Last.exc = "none"
    /\ pc = "invoke" => tried # <<>> /\ Last.exc = "none"
    /\ Len(prompts) >= iter

\* C12: the iterations follow the cycle Prompting, Parsing, Invoking,
\* Presenting, one after the other, and every submitted input that is parsed
\* goes on to one pipeline call: the parse never ends the iteration, so that
\* the only error that leaves the loop is one raised by the call.
C12_StrictCycle ==
    /\ Sequenced
    /\ pc = "Crashed" => excAt = "invoke"

\* C-c or C-d was observed while a prompt was waiting
PromptSignalled == excAt \in {"prompt", "help_prompt"}

\* C13: a cancellation or end-of-input signal at the main prompt or at the
\* prompt after the help sentinel leads to Exiting, with "Exiting..." logged
\* exactly once and no call left without its presentation; after it the
\* loop takes no step, so nothing is parsed, sent or presented any more.
C13_SignalAtPrompt ==
    /\ [](PromptSignalled
            => /\ pc = "Exiting"
               /\ exitLogs = 1
               /\ exc \in PromptSignals
               /\ Len(sent) = Len(presented))
    /\ [][~PromptSignalled]_vars

C13_Witness ==
    /\ excAt = "help_prompt"
    /\ exc = "EOFError"
    /\ pc = "Exiting"
    /\ exitLogs = 1
    /\ iter = 2
    /\ Len(presented) = 1

\* C14: whenever a prompt is issued, it carries the extended help banner
\* exactly when it is the first prompt of the session or the input given at
\* the prompt before it (raw, until this prompt returns) was the help
\* sentinel; every other prompt is the minimal one.
C14_BannerPlacement ==
    [][Len(prompts') = Len(prompts) + 1
          => prompts'[Len(prompts')] = (prompts = <<>> \/ raw = HelpSentinel)]_vars

\* C15: every request the loop sends is the (utterance, context) pair the
\* last tier run on this iteration's raw input returned, every presentation
\* shows the value the pipeline returned for the call just made, and
\* presenting changes neither the pair nor the response.
C15_PassThrough ==
    [][/\ Len(sent') = Len(sent) + 1
             => /\ tried # <<>> /\ Last.exc = "none"
                /\ sent'[Len(sent')] = [utterance |-> Last.utterance,
                                        context |-> Last.context]
       /\ Len(returned') = Len(returned) + 1
             => /\ Len(returned') = Len(sent')
                /\ response' = returned'[Len(returned')]
       /\ Len(presented') = Len(presented) + 1
             => /\ Len(presented') = Len(returned)
                /\ presented'[Len(presented')] = returned[Len(returned)]
                /\ UNCHANGED <<utterance, context, response>>]_vars

C15_Witness ==
    /\ pc = "prompt"
    /\ Len(presented) = 2
    /\ presented = returned
    /\ presented[1] # presented[2]
    /\ sent[1].context = PyNone
    /\ sent[2].context.t = "str"

\* lines 134-138 as a function of the raw input alone: the result of the
\* first tier that raises or returns a true utterance, else of the text tier
ParsedAfterLiteral(text, r) ==
    IF r.exc = "none" /\ Falsy(r.utterance)
    THEN make_alts_from_text(text)
    ELSE r
ParsedAfterJson(text, r) ==
    IF r.exc = "none" /\ Falsy(r.utterance)
    THEN ParsedAfterLiteral(text, parse_as(text, "ast.literal_eval"))
    ELSE r
Parsed(text) == ParsedAfterJson(text, parse_as(text, "json.loads"))

\* the arguments of PREDICT_API taken from a tier's result
PairOf(r) == [utterance |-> r.utterance, context |-> r.context]

\* C16: the pair that is about to be sent, and the pair that was sent in the
\* current iteration, is the value of one fixed function at this iteration's
\* raw input, whatever the earlier iterations left in the loop's variables.
C16_FunctionOfRaw ==
    /\ pc = "invoke"
          => [utterance |-> utterance, context |-> context] = PairOf(Parsed(raw))
    /\ sent # <<>> /\ Len(sent) = iter
          => sent[Len(sent)] = PairOf(Parsed(raw))

C16_Witness ==
    /\ iter = 3
    /\ pc = "present"
    /\ Len(sent) = 3
    /\ raw = <<"H", "i", "!">>
    /\ sent[1] = sent[3]
    /\ sent[2] # sent[3]
    /\ sent[2].context.t = "str"

\* C17: when the loop is about to call the pipeline, utterance and context
\* are the two components of the result of one tier, the last one run; the
\* tiers before it were rejected for a false utterance and what they
\* returned for context is not used; if the last tier is the text tier the
\* context is None or a string (the label after "|"), not a mapping.
C17_SameTier ==
    pc = "invoke"
       => /\ tried # <<>>
          /\ [utterance |-> utterance, context |-> context]
                 = [utterance |-> Last.utterance, context |-> Last.context]
          /\ \A i \in 1..(Len(tried) - 1) : Falsy(tried[i].utterance)
          /\ Ran("text")
                => /\ context.t \in {"None", "str"}
                   /\ context.t = "str" <=> HasPipe(raw)

C17_Witness ==
    /\ pc = "invoke"
    /\ raw = InEmptyAlternatives
    /\ Ran("text")
    /\ tried[1].context.t = "dict"
    /\ tried[1].context # EmptyDict
    /\ tried[2].context = tried[1].context
    /\ context = PyNone

====
